---- MODULE Spec2Model ----
(***************************************************************************)
(* EcoTracker: the activity-approval-to-reward ledger.                     *)
(*                                                                         *)
(* State: the relational rows of ActivitySubmission, CarbonLog,            *)
(* UserProfile, UserBadge, DynamicChallenge, EventParticipant and team     *)
(* membership, plus the position of every staff bulk action that is in     *)
(* progress (a bulk action fetches its queryset once and then works        *)
(* through the fetched objects one save at a time; the database runs in    *)
(* autocommit, so other requests interleave between two iterations).       *)
(*                                                                         *)
(* The operations are the handlers the repository codes: the submission    *)
(* form, approve(), the two staff bulk actions, update_stats and its       *)
(* callers, the badge evaluator, event check-in, challenge generation and  *)
(* progress, mark_completed.  The generic admin change and delete forms    *)
(* (hand edits of single rows) are not operations of this model.           *)
(*                                                                         *)
(* CarbonLog, UserBadge and EventParticipant are bags of rows: a row's id   *)
(* and timestamp are read by no operation of the pipeline.                 *)
(*                                                                         *)
(* Units: quantity is a FloatField; it is kept here in hundredths of a     *)
(* unit (500 = 5.0).  Carbon factors are kept in hundredths of kg/unit,    *)
(* so carbon_saved_kg is kept in 1/10000 kg (1100000 = 110.0 kg).          *)
(***************************************************************************)
EXTENDS Integers, Sequences, FiniteSets, Bags, TLC

\* ------------------------------------------------------------------ bounds
MaxSubs == 2
MaxLedger == 3
MaxChallenges == 1
MaxPoints == 250

\* ------------------------------------------------------------- population
\* the registered users, the staff sessions that can run side by side, the events
Users == {1, 2}
Admins == {1, 2}
Events == {1}

\* --------------------------------------------------------- program tables
ActivityType == {"TREE", "RECYCLE", "CLEANUP", "AWARENESS", "ENERGY_SAVING"}

\* a kind outside the enumerated set (the CharField accepts any string)
UnknownKind == "OTHER"

Status == {"PENDING", "APPROVED", "REJECTED"}

\* settings.CARBON_FACTORS, in hundredths of kg per unit
CARBON_FACTORS == [k \in ActivityType |->
                     CASE k = "TREE" -> 2200
                       [] k = "RECYCLE" -> 150
                       [] k = "CLEANUP" -> 50
                       [] k = "AWARENESS" -> 500
                       [] k = "ENERGY_SAVING" -> 85]

\* variant: dict.get(key, 1.0), a kind outside the table counts 1 kg per unit
CarbonFactorGet_default_one(kind) == IF kind \in DOMAIN CARBON_FACTORS THEN CARBON_FACTORS[kind] ELSE 100

\* dict.get(key, 0)
CarbonFactorGet(kind) == IF kind \in DOMAIN CARBON_FACTORS THEN CARBON_FACTORS[kind] ELSE 0

points_for_attendance == 25

badges_to_check == <<
  [badge_type |-> "BRONZE", threshold |-> 50, description |-> "Earned your first 50 points!"],
  [badge_type |-> "SILVER", threshold |-> 200, description |-> "Reached 200 points - you're making a difference!"],
  [badge_type |-> "GOLD", threshold |-> 500, description |-> "Gold level achieved with 500 points!"],
  [badge_type |-> "PLATINUM", threshold |-> 1000, description |-> "Platinum status - 1000 points earned!"],
  [badge_type |-> "ECO_CHAMPION", threshold |-> 2000, description |-> "Ultimate Eco Champion - 2000+ points!"] >>

\* thresholds are in units; quantities in hundredths of a unit
activity_badges == <<
  [badge_type |-> "TREE_LOVER", activity_type |-> "TREE", threshold |-> 10, description |-> "Planted 10 or more trees!"],
  [badge_type |-> "RECYCLING_HERO", activity_type |-> "RECYCLE", threshold |-> 50, description |-> "Recycled 50kg or more of materials!"],
  [badge_type |-> "CLEANUP_MASTER", activity_type |-> "CLEANUP", threshold |-> 25, description |-> "Cleaned up 25kg or more of waste!"],
  [badge_type |-> "AWARENESS_ADVOCATE", activity_type |-> "AWARENESS", threshold |-> 20, description |-> "Participated in 20+ hours of awareness campaigns!"],
  [badge_type |-> "ENERGY_SAVER", activity_type |-> "ENERGY_SAVING", threshold |-> 100, description |-> "Saved 100+ kWh of energy!"] >>

\* ------------------------------------------------------------------ inputs
\* (activity_type, quantity in hundredths) pairs the submission form is fed
SubmitInputs == { <<"TREE", 500>>, <<"TREE", 100>> }

\* submissions that bring a kind's approved quantity below, onto and over its badge threshold
ActivityInputs == { <<"RECYCLE", 4500>>, <<"RECYCLE", 1000>>, <<"TREE", 1000>> }

\* quantities (hundredths) whose points lie on and just below each level threshold
LevelQuantities == { 0, 490, 500, 1990, 2000, 4990, 5000, 9990, 10000, 19990, 20000, 25000 }

\* quantities (hundredths) the approval computation is checked on
Quantities == { -155, 0, 5, 55, 100, 500, 4500, 25000 }

\* (target_value, reward_points) of generated challenges
ChallengeData == { [target_value |-> 10, reward_points |-> 100] }

\* progress values posted to the progress API
ProgressValues == { -1, 5, 7, 150 }

\* ------------------------------------------------------------------- state
VARIABLES subs, ledger, profile, badges, challenges, participants, teams, admin, last

vars == <<subs, ledger, profile, badges, challenges, participants, teams, admin, last>>

\* the database rows the reward pipeline reads and writes
DB == [subs |-> subs, ledger |-> ledger, profile |-> profile, badges |-> badges]

NoOp == [op |-> "none", user |-> 0, sub |-> 0, arg |-> 0, sel |-> {}, err |-> "none", created |-> 0,
         repeat |-> FALSE]

MkLast(op, u, s, err) ==
  [op |-> op, user |-> u, sub |-> s, arg |-> 0, sel |-> {}, err |-> err, created |-> 0, repeat |-> FALSE]

\* ------------------------------------------------------- pure computations
\* Python int(): truncation toward zero of n/d
IntTrunc(n, d) == IF n >= 0 THEN n \div d ELSE -((-n) \div d)

\* variant: round(self.quantity * 10) in place of int()
PointsFor_round(quantity) == (quantity * 10 + 50) \div 100

\* int(self.quantity * 10), quantity in hundredths
PointsFor(quantity) == IntTrunc(quantity * 10, 100)

\* self.quantity * carbon_factor
CarbonFor(kind, quantity) == quantity * CarbonFactorGet(kind)

\* Sum(field) over a set of distinct rows, each counted as often as the table holds it
RECURSIVE SumRows(_, _, _)
SumRows(l, rows, field) ==
  IF rows = {} THEN 0
  ELSE LET r == CHOOSE x \in rows : TRUE
       IN CopiesIn(r, l) * r[field] + SumRows(l, rows \ {r}, field)

\* CarbonLog.objects.filter(user=self.user).aggregate(Sum('points_earned'))
SumPoints(l, u) == SumRows(l, {r \in BagToSet(l) : r.user = u}, "points_earned")

\* CarbonLog.objects.filter(user=self.user).aggregate(Sum('carbon_saved_kg'))
SumCarbon(l, u) == SumRows(l, {r \in BagToSet(l) : r.user = u}, "carbon_saved_kg")

\* variant: the sums are added to the cached totals instead of replacing them
update_stats_incremental(db, u) ==
  [db EXCEPT !.profile[u] = [total_points |-> @.total_points + SumPoints(db.ledger, u),
                             total_carbon_saved |-> @.total_carbon_saved + SumCarbon(db.ledger, u)]]

\* UserProfile.update_stats
update_stats(db, u) ==
  [db EXCEPT !.profile[u] = [total_points |-> SumPoints(db.ledger, u),
                             total_carbon_saved |-> SumCarbon(db.ledger, u)]]

\* variant: the comparisons are strict (>), a user exactly on a threshold stays one level below
current_level_strict(total_points) ==
  IF total_points > 2000 THEN "Eco Champion"
  ELSE IF total_points > 1000 THEN "Platinum"
  ELSE IF total_points > 500 THEN "Gold"
  ELSE IF total_points > 200 THEN "Silver"
  ELSE IF total_points > 50 THEN "Bronze"
  ELSE "Newbie"

\* UserProfile.current_level
current_level(total_points) ==
  IF total_points >= 2000 THEN "Eco Champion"
  ELSE IF total_points >= 1000 THEN "Platinum"
  ELSE IF total_points >= 500 THEN "Gold"
  ELSE IF total_points >= 200 THEN "Silver"
  ELSE IF total_points >= 50 THEN "Bronze"
  ELSE "Newbie"

HasBadge(b, u, badge_type) == \E r \in BagToSet(b) : r.user = u /\ r.badge_type = badge_type

\* variant: UserBadge.objects.create, without the lookup
award_badge_create(b, u, badge_type, description) ==
  b (+) SetToBag({[user |-> u, badge_type |-> badge_type, description |-> description]})

\* BadgeService._award_badge: UserBadge.objects.get_or_create
award_badge(b, u, badge_type, description) ==
  IF HasBadge(b, u, badge_type) THEN b
  ELSE b (+) SetToBag({[user |-> u, badge_type |-> badge_type, description |-> description]})

RECURSIVE AwardEach(_, _, _)
AwardEach(b, u, rows) ==
  IF rows = <<>> THEN b
  ELSE AwardEach(award_badge(b, u, Head(rows).badge_type, Head(rows).description), u, Tail(rows))

\* variant: a user holds one level badge at a time, the rows of the other tiers are deleted
check_level_badges_replacing(db, u) ==
  LET eligible(r) == db.profile[u].total_points >= r.threshold
      all == AwardEach(db.badges, u, SelectSeq(badges_to_check, eligible))
      lower(x) == \E i, j \in DOMAIN badges_to_check :
                     /\ x.user = u /\ badges_to_check[i].badge_type = x.badge_type
                     /\ i < j /\ eligible(badges_to_check[j])
  IN [db EXCEPT !.badges = [r \in {x \in BagToSet(all) : ~lower(x)} |-> CopiesIn(r, all)]]

\* variant: the tiers are exclusive (if / elif from the top), only the highest one reached is awarded
check_level_badges_highest(db, u) ==
  LET eligible(r) == /\ db.profile[u].total_points >= r.threshold
                     /\ \A i \in DOMAIN badges_to_check :
                           db.profile[u].total_points >= badges_to_check[i].threshold
                              => badges_to_check[i].threshold <= r.threshold
  IN [db EXCEPT !.badges = AwardEach(db.badges, u, SelectSeq(badges_to_check, eligible))]

\* BadgeService._check_level_badges
check_level_badges(db, u) ==
  LET eligible(r) == db.profile[u].total_points >= r.threshold
  IN [db EXCEPT !.badges = AwardEach(db.badges, u, SelectSeq(badges_to_check, eligible))]

\* Sum('quantity') over the user's APPROVED submissions of one kind
RECURSIVE ApprovedQuantity(_, _, _, _)
ApprovedQuantity(s, u, kind, i) ==
  IF i > Len(s) THEN 0
  ELSE (IF s[i].user = u /\ s[i].activity_type = kind /\ s[i].status = "APPROVED"
        THEN s[i].quantity ELSE 0) + ApprovedQuantity(s, u, kind, i + 1)

\* variant: the status='APPROVED' filter is missing, every submission of the kind counts
check_activity_badges_any_status(db, u) ==
  LET all == [i \in DOMAIN db.subs |-> [db.subs[i] EXCEPT !.status = "APPROVED"]]
      eligible(r) == ApprovedQuantity(all, u, r.activity_type, 1) >= r.threshold * 100
  IN [db EXCEPT !.badges = AwardEach(db.badges, u, SelectSeq(activity_badges, eligible))]

\* BadgeService._check_activity_badges
check_activity_badges(db, u) ==
  LET eligible(r) == ApprovedQuantity(db.subs, u, r.activity_type, 1) >= r.threshold * 100
  IN [db EXCEPT !.badges = AwardEach(db.badges, u, SelectSeq(activity_badges, eligible))]

\* EventParticipant.objects.filter(user=user).count()
EventsAttended(parts, u) ==
  BagCardinality([r \in {x \in BagToSet(parts) : x.user = u} |-> CopiesIn(r, parts)])

\* BadgeService._check_special_badges
check_special_badges(db, u, parts, tms) ==
  LET events_attended == EventsAttended(parts, u)
      b1 == IF events_attended >= 5
            THEN award_badge(db.badges, u, "EVENT_PARTICIPANT",
                             "Attended " \o ToString(events_attended) \o " eco-events!")
            ELSE db.badges
      b2 == IF tms[u]
            THEN award_badge(b1, u, "TEAM_PLAYER", "Active team member contributing to collective goals!")
            ELSE b1
  IN [db EXCEPT !.badges = b2]

\* variant: the evaluator trusts the cached totals, update_stats is not called first
check_and_award_badges_cached(db, u, parts, tms) ==
  check_special_badges(check_activity_badges(check_level_badges(db, u), u), u, parts, tms)

\* BadgeService.check_and_award_badges
check_and_award_badges(db, u, parts, tms) ==
  check_special_badges(check_activity_badges(check_level_badges(update_stats(db, u), u), u), u, parts, tms)

\* ActivitySubmission.approve, lines 35-41: the fields set on the in-memory object
approved_object(obj) ==
  [obj EXCEPT !.points_awarded = PointsFor(obj.quantity),
              !.carbon_saved_kg = CarbonFor(obj.activity_type, obj.quantity),
              !.status = "APPROVED"]

\* Model.save(): every field of the in-memory object overwrites the row
save(db, id, obj) == [db EXCEPT !.subs[id] = obj]

\* variant: CarbonLog.objects.update_or_create(user=...), one row per user that is overwritten
create_log_update_or_create(db, u, submission, carbon, points) ==
  [db EXCEPT !.ledger = [r \in {x \in BagToSet(@) : x.user # u} |-> CopiesIn(r, @)]
                          (+) SetToBag({[user |-> u, submission |-> submission,
                                         carbon_saved_kg |-> carbon, points_earned |-> points]})]

\* CarbonLog.objects.create
create_log(db, u, submission, carbon, points) ==
  [db EXCEPT !.ledger = @ (+) SetToBag({[user |-> u, submission |-> submission,
                                         carbon_saved_kg |-> carbon, points_earned |-> points]})]

\* ActivitySubmission.approve up to and including the log entry (lines 35-50)
approve_until_log(db, id, obj) ==
  LET o == approved_object(obj)
  IN create_log(save(db, id, o), o.user, id, o.carbon_saved_kg, o.points_awarded)

\* ActivitySubmission.approve
approve(db, id, obj, parts, tms) ==
  check_and_award_badges(approve_until_log(db, id, obj), obj.user, parts, tms)

\* variant: save(update_fields=['status', 'feedback']), the other columns keep the row's values
reject_update_fields(db, id, obj) ==
  [db EXCEPT !.subs[id].status = "REJECTED", !.subs[id].feedback = "Rejected by admin bulk action"]

\* variant: the feedback assignment is missing
reject_no_feedback(db, id, obj) == [db EXCEPT !.subs[id] = [obj EXCEPT !.status = "REJECTED"]]

\* reject_submissions, loop body: status and feedback set on the fetched object, then save()
reject(db, id, obj) ==
  save(db, id, [obj EXCEPT !.status = "REJECTED", !.feedback = "Rejected by admin bulk action"])

\* ------------------------------------------------------------------- Init
Init ==
  /\ subs = <<>>
  /\ ledger = EmptyBag
  /\ profile = [u \in Users |-> [total_points |-> 0, total_carbon_saved |-> 0]]
  /\ badges = EmptyBag
  /\ challenges = <<>>
  /\ participants = EmptyBag
  /\ teams = [u \in Users |-> FALSE]
  /\ admin = [a \in Admins |-> [action |-> "idle", queue |-> <<>>]]
  /\ last = NoOp

Commit(db) ==
  /\ subs' = db.subs
  /\ ledger' = db.ledger
  /\ profile' = db.profile
  /\ badges' = db.badges

\* ---------------------------------------------------------------- actions
\* SubmitActivityView.form_valid: a new PENDING submission of the logged-in user
Submit(u, in) ==
  /\ Len(subs) < MaxSubs
  /\ subs' = Append(subs, [user |-> u, activity_type |-> in[1], quantity |-> in[2],
                           status |-> "PENDING", points_awarded |-> 0,
                           carbon_saved_kg |-> 0, feedback |-> ""])
  /\ last' = MkLast("submit", u, Len(subs) + 1, "none")
  /\ UNCHANGED <<ledger, profile, badges, challenges, participants, teams, admin>>

Max(S) == CHOOSE m \in S : \A x \in S : x <= m

\* the fetched queryset, newest first (ordering = '-submitted_at')
RECURSIVE Fetched(_)
Fetched(S) == IF S = {} THEN <<>>
              ELSE <<[id |-> Max(S), obj |-> subs[Max(S)]]>> \o Fetched(S \ {Max(S)})

\* variant: the bulk action works on the whole selection, without the status filter
AdminFetch_unfiltered(a, act, S) ==
  /\ admin[a].action = "idle"
  /\ S # {}
  /\ admin' = [admin EXCEPT ![a] = [action |-> act, queue |-> Fetched(S)]]
  /\ last' = [MkLast("fetch_" \o act, 0, 0, "none") EXCEPT !.sel = S]
  /\ UNCHANGED <<subs, ledger, profile, badges, challenges, participants, teams>>

\* a bulk action starts: queryset.filter(status='PENDING') is evaluated
AdminFetch(a, act, S) ==
  /\ admin[a].action = "idle"
  /\ S # {}
  /\ LET q == Fetched({s \in S : subs[s].status = "PENDING"})
     IN admin' = [admin EXCEPT ![a] = IF q = <<>> THEN [action |-> "idle", queue |-> <<>>]
                                      ELSE [action |-> act, queue |-> q]]
  /\ last' = [MkLast("fetch_" \o act, 0, 0, "none") EXCEPT !.sel = S]
  /\ UNCHANGED <<subs, ledger, profile, badges, challenges, participants, teams>>

Advance(a) ==
  LET rest == Tail(admin[a].queue)
  IN admin' = [admin EXCEPT ![a] = IF rest = <<>> THEN [action |-> "idle", queue |-> <<>>]
                                   ELSE [action |-> admin[a].action, queue |-> rest]]

\* approve_submissions, one loop iteration: submission.approve()
AdminApproveStep(a) ==
  /\ admin[a].action = "approve"
  /\ BagCardinality(ledger) < MaxLedger
  /\ LET item == Head(admin[a].queue)
     IN /\ Commit(approve(DB, item.id, item.obj, participants, teams))
        /\ last' = MkLast("approve", item.obj.user, item.id, "none")
  /\ Advance(a)
  /\ UNCHANGED <<challenges, participants, teams>>

\* approve_submissions, one loop iteration in which the storage fails after the
\* log entry is written and before update_stats: nothing wraps approve() in a
\* transaction, so what was saved stays; the exception ends the bulk action.
AdminApproveStepFailing(a) ==
  /\ admin[a].action = "approve"
  /\ BagCardinality(ledger) < MaxLedger
  /\ LET item == Head(admin[a].queue)
     IN /\ Commit(approve_until_log(DB, item.id, item.obj))
        /\ last' = MkLast("approve", item.obj.user, item.id, "PersistenceFailure")
  /\ admin' = [admin EXCEPT ![a] = [action |-> "idle", queue |-> <<>>]]
  /\ UNCHANGED <<challenges, participants, teams>>

\* approve() in three steps, for requests that run side by side (autocommit:
\* every save, create and query is its own transaction).
\* Step 1, lines 35-50: the submission is saved and the log entry created.
ApproveWrite(a) ==
  /\ admin[a].action = "approve"
  /\ BagCardinality(ledger) < MaxLedger
  /\ LET item == Head(admin[a].queue)
     IN /\ Commit(approve_until_log(DB, item.id, item.obj))
        /\ last' = MkLast("approve_write", item.obj.user, item.id, "none")
  /\ admin' = [admin EXCEPT ![a].action = "approve_read"]
  /\ UNCHANGED <<challenges, participants, teams>>

\* Step 2, update_stats lines 102-107: the aggregate query; its result is held
\* on the in-memory profile object of this request
ApproveRead(a) ==
  /\ admin[a].action = "approve_read"
  /\ LET u == Head(admin[a].queue).obj.user
     IN /\ admin' = [admin EXCEPT ![a] =
                        [action |-> "approve_save", queue |-> admin[a].queue,
                         read |-> update_stats(DB, u).profile[u]]]
        /\ last' = MkLast("approve_read", u, Head(admin[a].queue).id, "none")
  /\ UNCHANGED <<subs, ledger, profile, badges, challenges, participants, teams>>

\* Step 3, update_stats line 108 and badge_service lines 19-26: self.save()
\* writes the held totals, then the badge checks run on the in-memory profile
ApproveFinish(a) ==
  /\ admin[a].action = "approve_save"
  /\ LET item == Head(admin[a].queue)
         u == item.obj.user
         saved == [DB EXCEPT !.profile[u] = admin[a].read]
     IN /\ Commit(check_special_badges(check_activity_badges(check_level_badges(saved, u), u),
                                       u, participants, teams))
        /\ last' = MkLast("approve", u, item.id, "none")
  /\ LET rest == Tail(admin[a].queue)
     IN admin' = [admin EXCEPT ![a] = IF rest = <<>> THEN [action |-> "idle", queue |-> <<>>]
                                      ELSE [action |-> "approve", queue |-> rest]]
  /\ UNCHANGED <<challenges, participants, teams>>

\* reject_submissions, one loop iteration
AdminRejectStep(a) ==
  /\ admin[a].action = "reject"
  /\ LET item == Head(admin[a].queue)
     IN /\ Commit(reject(DB, item.id, item.obj))
        /\ last' = MkLast("reject", item.obj.user, item.id, "none")
  /\ Advance(a)
  /\ UNCHANGED <<challenges, participants, teams>>

\* DashboardView.get_context_data, UserProfileView.get, the admin update_stats actions
RecomputeStats(u) ==
  /\ Commit(update_stats(DB, u))
  /\ last' = MkLast("update_stats", u, 0, "none")
  /\ UNCHANGED <<challenges, participants, teams, admin>>

\* UserAdmin.award_badges: BadgeService.check_and_award_badges(user)
AwardBadges(u) ==
  /\ LET db == check_and_award_badges(DB, u, participants, teams)
     IN /\ Commit(db)
        /\ last' = [MkLast("award_badges", u, 0, "none") EXCEPT
                      !.created = BagCardinality(db.badges) - BagCardinality(badges),
                      !.repeat = (last.op = "award_badges" /\ last.user = u)]
  /\ UNCHANGED <<challenges, participants, teams, admin>>

\* The badge evaluator in steps, for runs that go on side by side.  A run
\* works through the level rows, the activity rows and the two special rows;
\* per row it tests the condition and, when it is met, calls get_or_create,
\* which is a get() and, on DoesNotExist, a create().
EvalRows == Len(badges_to_check) + Len(activity_badges) + 2

\* row p of a run for user u whose in-memory profile holds points
EvalRow(p, u, points) ==
  IF p <= Len(badges_to_check)
  THEN [badge_type |-> badges_to_check[p].badge_type, description |-> badges_to_check[p].description,
        eligible |-> points >= badges_to_check[p].threshold]
  ELSE IF p <= Len(badges_to_check) + Len(activity_badges)
  THEN LET r == activity_badges[p - Len(badges_to_check)]
       IN [badge_type |-> r.badge_type, description |-> r.description,
           eligible |-> ApprovedQuantity(subs, u, r.activity_type, 1) >= r.threshold * 100]
  ELSE LET events_attended == EventsAttended(participants, u)
       IN IF p = EvalRows - 1
          THEN [badge_type |-> "EVENT_PARTICIPANT",
                description |-> "Attended " \o ToString(events_attended) \o " eco-events!",
                eligible |-> events_attended >= 5]
          ELSE [badge_type |-> "TEAM_PLAYER",
                description |-> "Active team member contributing to collective goals!",
                eligible |-> teams[u]]

\* variant: the table has no unique constraint, create() always inserts
insert_badge_unconstrained(b, u, badge_type, description) ==
  b (+) SetToBag({[user |-> u, badge_type |-> badge_type, description |-> description]})

\* the create() of get_or_create under unique_together (user, badge_type): the
\* insert of a second row for the pair is refused with IntegrityError, which
\* get_or_create catches and answers with a get() of the row that is there
insert_badge(b, u, badge_type, description) ==
  IF HasBadge(b, u, badge_type) THEN b
  ELSE b (+) SetToBag({[user |-> u, badge_type |-> badge_type, description |-> description]})

\* the run moves to its next row, or ends
EvalAdvance(a) ==
  admin' = [admin EXCEPT ![a] = IF admin[a].pos = EvalRows THEN [action |-> "idle", queue |-> <<>>]
                                ELSE [@ EXCEPT !.action = "evaluate", !.pos = @ + 1]]

\* check_and_award_badges lines 16-17: the profile is fetched and update_stats runs
EvalStart(a, u) ==
  /\ admin[a].action = "idle"
  /\ Commit(update_stats(DB, u))
  /\ admin' = [admin EXCEPT ![a] = [action |-> "evaluate", queue |-> <<>>, user |-> u, pos |-> 1,
                                    points |-> update_stats(DB, u).profile[u].total_points]]
  /\ last' = MkLast("evaluate_start", u, 0, "none")
  /\ UNCHANGED <<challenges, participants, teams>>

\* one row: the condition and, when it is met, the get() of get_or_create
EvalGet(a) ==
  /\ admin[a].action = "evaluate"
  /\ LET u == admin[a].user
         r == EvalRow(admin[a].pos, u, admin[a].points)
     IN /\ IF r.eligible /\ ~HasBadge(badges, u, r.badge_type)
           THEN admin' = [admin EXCEPT ![a].action = "evaluate_create"]
           ELSE EvalAdvance(a)
        /\ last' = [MkLast("evaluate_get", u, 0, "none") EXCEPT !.arg = admin[a].pos]
  /\ UNCHANGED <<subs, ledger, profile, badges, challenges, participants, teams>>

\* the create() that follows a get() which found no row
EvalCreate(a) ==
  /\ admin[a].action = "evaluate_create"
  /\ LET u == admin[a].user
         r == EvalRow(admin[a].pos, u, admin[a].points)
         b == insert_badge(badges, u, r.badge_type, r.description)
     IN /\ badges' = b
        /\ last' = [MkLast("evaluate_create", u, 0, "none") EXCEPT
                      !.arg = admin[a].pos,
                      !.created = BagCardinality(b) - BagCardinality(badges)]
  /\ EvalAdvance(a)
  /\ UNCHANGED <<subs, ledger, profile, challenges, participants, teams>>

\* UserAdmin.award_badges is above; the remaining collaborators follow.

\* EventCheckinAPI.post
EventCheckin(e, u) ==
  IF BagIn([event |-> e, user |-> u], participants)
  THEN /\ last' = MkLast("checkin", u, 0, "already checked in")
       /\ UNCHANGED <<subs, ledger, profile, badges, challenges, participants, teams, admin>>
  ELSE /\ BagCardinality(ledger) < MaxLedger
       /\ participants' = participants (+) SetToBag({[event |-> e, user |-> u]})
       /\ Commit(create_log(DB, u, 0, 0, points_for_attendance))
       /\ last' = MkLast("checkin", u, 0, "none")
       /\ UNCHANGED <<challenges, teams, admin>>

\* EventCheckinAPI.post in steps, for check-in requests (staff sessions) that
\* run side by side.

\* variant: the table has no unique constraint, create() always inserts
insert_participant_unconstrained(parts, e, u) == parts (+) SetToBag({[event |-> e, user |-> u]})

\* EventParticipant.objects.create under unique_together (event, user): the
\* insert of a second row for the pair is refused (the table is left as it was)
insert_participant(parts, e, u) ==
  IF BagIn([event |-> e, user |-> u], parts) THEN parts
  ELSE parts (+) SetToBag({[event |-> e, user |-> u]})

\* Step 1, lines 65-66: the exists() query; 409 when the row is there
CheckinExists(a, e, u) ==
  /\ admin[a].action = "idle"
  /\ IF BagIn([event |-> e, user |-> u], participants)
     THEN /\ last' = [MkLast("checkin", u, 0, "already checked in") EXCEPT !.arg = e]
          /\ UNCHANGED admin
     ELSE /\ last' = [MkLast("checkin_exists", u, 0, "none") EXCEPT !.arg = e]
          /\ admin' = [admin EXCEPT ![a] = [action |-> "checkin_participant", queue |-> <<>>,
                                            event |-> e, user |-> u]]
  /\ UNCHANGED <<subs, ledger, profile, badges, challenges, participants, teams>>

\* Step 2, line 69: the participant row is created; a refused insert raises
\* IntegrityError, which nothing catches: the request ends there
CheckinParticipant(a) ==
  /\ admin[a].action = "checkin_participant"
  /\ LET e == admin[a].event
         u == admin[a].user
         inserted == insert_participant(participants, e, u)
     IN IF inserted = participants
        THEN /\ last' = [MkLast("checkin", u, 0, "IntegrityError") EXCEPT !.arg = e]
             /\ admin' = [admin EXCEPT ![a] = [action |-> "idle", queue |-> <<>>]]
             /\ UNCHANGED participants
        ELSE /\ last' = [MkLast("checkin_participant", u, 0, "none") EXCEPT !.arg = e]
             /\ admin' = [admin EXCEPT ![a].action = "checkin_log"]
             /\ participants' = inserted
  /\ UNCHANGED <<subs, ledger, profile, badges, challenges, teams>>

\* Step 3, lines 72-76: the log entry is created and the request answers
CheckinLog(a) ==
  /\ admin[a].action = "checkin_log"
  /\ BagCardinality(ledger) < MaxLedger
  /\ Commit(create_log(DB, admin[a].user, 0, 0, points_for_attendance))
  /\ last' = [MkLast("checkin", admin[a].user, 0, "none") EXCEPT !.arg = admin[a].event]
  /\ admin' = [admin EXCEPT ![a] = [action |-> "idle", queue |-> <<>>]]
  /\ UNCHANGED <<challenges, participants, teams>>

\* Team.members.add(user), done through the Team admin form
JoinTeam(u) ==
  /\ ~teams[u]
  /\ teams' = [teams EXCEPT ![u] = TRUE]
  /\ last' = MkLast("join_team", u, 0, "none")
  /\ UNCHANGED <<subs, ledger, profile, badges, challenges, participants, admin>>

\* ChallengeGeneratorAI.generate_weekly_challenge
GenerateChallenge(u, force_new, data) ==
  /\ Len(challenges) < MaxChallenges
  /\ LET marked == [i \in 1..Len(challenges) |->
                      IF force_new /\ challenges[i].user = u /\ ~challenges[i].is_completed
                      THEN [challenges[i] EXCEPT !.is_completed = TRUE]
                      ELSE challenges[i]]
     IN challenges' = Append(marked, [user |-> u, target_value |-> data.target_value,
                                      reward_points |-> data.reward_points,
                                      current_progress |-> 0, is_completed |-> FALSE])
  /\ last' = MkLast("generate_challenge", u, 0, "none")
  /\ UNCHANGED <<subs, ledger, profile, badges, participants, teams, admin>>

Min(a, b) == IF a <= b THEN a ELSE b

\* update_challenge_progress_api
ReportProgress(u, c, progress) ==
  IF challenges[c].user # u
  THEN /\ last' = [MkLast("progress", u, c, "Challenge not found") EXCEPT !.arg = progress]
       /\ UNCHANGED <<subs, ledger, profile, badges, challenges, participants, teams, admin>>
  ELSE LET cp == Min(progress, challenges[c].target_value)
           done == cp >= challenges[c].target_value
       IN /\ done => profile[u].total_points + challenges[c].reward_points <= MaxPoints
          /\ challenges' = [challenges EXCEPT ![c] =
                              [@ EXCEPT !.current_progress = cp,
                                        !.is_completed = IF done THEN TRUE ELSE @]]
          /\ profile' = IF done
                        THEN [profile EXCEPT ![u].total_points = @ + challenges[c].reward_points]
                        ELSE profile
          /\ last' = [MkLast("progress", u, c, "none") EXCEPT !.arg = progress]
          /\ UNCHANGED <<subs, ledger, badges, participants, teams, admin>>

\* DynamicChallengeAdmin.mark_completed
MarkCompleted(S) ==
  /\ S # {}
  /\ challenges' = [i \in 1..Len(challenges) |->
                      IF i \in S THEN [challenges[i] EXCEPT !.is_completed = TRUE] ELSE challenges[i]]
  /\ last' = MkLast("mark_completed", 0, 0, "none")
  /\ UNCHANGED <<subs, ledger, profile, badges, participants, teams, admin>>

\* ----------------------------------------------------------- specifications
\* Approval and badges: one staff bulk action at a time, interleaved with
\* submissions, recomputations, evaluator runs and team changes.
Next ==
  \/ \E u \in Users, in \in SubmitInputs : Submit(u, in)
  \/ \E act \in {"approve", "reject"}, S \in SUBSET (DOMAIN subs) : AdminFetch(1, act, S)
  \/ AdminApproveStep(1)
  \/ AdminRejectStep(1)
  \/ \E u \in Users : RecomputeStats(u)
  \/ \E u \in Users : AwardBadges(u)
  \/ \E u \in Users : JoinTeam(u)

Spec == Init /\ [][Next]_vars

\* Approvals and challenge progress reports.
NextChallenge ==
  \/ \E u \in Users, in \in SubmitInputs : Submit(u, in)
  \/ \E S \in SUBSET (DOMAIN subs) : AdminFetch(1, "approve", S)
  \/ AdminApproveStep(1)
  \/ \E u \in Users : RecomputeStats(u)
  \/ \E u \in Users, f \in BOOLEAN, d \in ChallengeData : GenerateChallenge(u, f, d)
  \/ \E u \in Users, c \in DOMAIN challenges, p \in ProgressValues : ReportProgress(u, c, p)
  \/ \E S \in SUBSET (DOMAIN challenges) : MarkCompleted(S)

SpecChallenge == Init /\ [][NextChallenge]_vars

\* Several staff bulk actions in progress at once, on the submissions of one user.
NextConc ==
  \/ \E in \in SubmitInputs : Submit(1, in)
  \/ \E a \in Admins, act \in {"approve", "reject"}, S \in SUBSET (DOMAIN subs) : AdminFetch(a, act, S)
  \/ \E a \in Admins : AdminApproveStep(a)
  \/ \E a \in Admins : AdminRejectStep(a)
  \/ RecomputeStats(1)
  \/ AwardBadges(1)

SpecConc == Init /\ [][NextConc]_vars

\* Approvals during which the storage may fail.
NextFail ==
  \/ \E u \in Users, in \in SubmitInputs : Submit(u, in)
  \/ \E S \in SUBSET (DOMAIN subs) : AdminFetch(1, "approve", S)
  \/ AdminApproveStep(1)
  \/ AdminApproveStepFailing(1)
  \/ \E u \in Users : RecomputeStats(u)

SpecFail == Init /\ [][NextFail]_vars

\* The approval computation on one submission of any kind and quantity.
InitApprove ==
  /\ \E u \in Users, k \in ActivityType \cup {UnknownKind}, q \in Quantities :
        subs = <<[user |-> u, activity_type |-> k, quantity |-> q, status |-> "PENDING",
                 points_awarded |-> 0, carbon_saved_kg |-> 0, feedback |-> ""]>>
  /\ ledger = EmptyBag
  /\ profile = [u \in Users |-> [total_points |-> 0, total_carbon_saved |-> 0]]
  /\ badges = EmptyBag
  /\ challenges = <<>>
  /\ participants = EmptyBag
  /\ teams = [u \in Users |-> FALSE]
  /\ admin = [a \in Admins |-> [action |-> "idle", queue |-> <<>>]]
  /\ last = NoOp

NextApprove ==
  \/ \E act \in {"approve", "reject"}, S \in SUBSET (DOMAIN subs) : AdminFetch(1, act, S)
  \/ AdminApproveStep(1)
  \/ AdminRejectStep(1)

SpecApprove == InitApprove /\ [][NextApprove]_vars

\* Approvals and rejections of submissions whose quantities add up to a badge threshold.
NextActivity ==
  \/ \E u \in Users, in \in ActivityInputs : Submit(u, in)
  \/ \E act \in {"approve", "reject"}, S \in SUBSET (DOMAIN subs) : AdminFetch(1, act, S)
  \/ AdminApproveStep(1)
  \/ AdminRejectStep(1)

SpecActivity == Init /\ [][NextActivity]_vars

\* Every operation that reads or writes the ledger, for one user.
NextLedger ==
  \/ Submit(1, <<"TREE", 500>>)
  \/ \E act \in {"approve", "reject"}, S \in SUBSET (DOMAIN subs) : AdminFetch(1, act, S)
  \/ AdminApproveStep(1)
  \/ AdminRejectStep(1)
  \/ RecomputeStats(1)
  \/ AwardBadges(1)
  \/ \E e \in Events : EventCheckin(e, 1)
  \/ \E d \in ChallengeData : GenerateChallenge(1, FALSE, d)
  \/ \E c \in DOMAIN challenges, p \in ProgressValues : ReportProgress(1, c, p)

SpecLedger == Init /\ [][NextLedger]_vars

\* Approvals running side by side, each in its three steps.
NextInterleaved ==
  \/ \E in \in SubmitInputs : Submit(1, in)
  \/ \E a \in Admins, S \in SUBSET (DOMAIN subs) : AdminFetch(a, "approve", S)
  \/ \E a \in Admins : ApproveWrite(a)
  \/ \E a \in Admins : ApproveRead(a)
  \/ \E a \in Admins : ApproveFinish(a)

SpecInterleaved == Init /\ [][NextInterleaved]_vars

\* Badge evaluator runs side by side, next to approvals and team changes.
NextEval ==
  \/ Submit(1, <<"TREE", 500>>)
  \/ \E S \in SUBSET (DOMAIN subs) : AdminFetch(1, "approve", S)
  \/ AdminApproveStep(1)
  \/ JoinTeam(1)
  \/ \E a \in Admins : EvalStart(a, 1)
  \/ \E a \in Admins : EvalGet(a)
  \/ \E a \in Admins : EvalCreate(a)

SpecEval == Init /\ [][NextEval]_vars

\* The level ladder: one submission whose points lie on or next to a threshold.
InitLevel ==
  /\ \E u \in Users, k \in ActivityType, q \in LevelQuantities :
        subs = <<[user |-> u, activity_type |-> k, quantity |-> q, status |-> "PENDING",
                 points_awarded |-> 0, carbon_saved_kg |-> 0, feedback |-> ""]>>
  /\ ledger = EmptyBag
  /\ profile = [u \in Users |-> [total_points |-> 0, total_carbon_saved |-> 0]]
  /\ badges = EmptyBag
  /\ challenges = <<>>
  /\ participants = EmptyBag
  /\ teams = [u \in Users |-> FALSE]
  /\ admin = [a \in Admins |-> [action |-> "idle", queue |-> <<>>]]
  /\ last = NoOp

NextLevel ==
  \/ \E act \in {"approve", "reject"}, S \in SUBSET (DOMAIN subs) : AdminFetch(1, act, S)
  \/ AdminApproveStep(1)
  \/ AdminRejectStep(1)

SpecLevel == InitLevel /\ [][NextLevel]_vars

\* Badges over time: approvals and rejections that cross several thresholds,
\* recomputations and evaluator runs.
NextBadges ==
  \/ \E u \in Users, in \in ActivityInputs : Submit(u, in)
  \/ \E act \in {"approve", "reject"}, S \in SUBSET (DOMAIN subs) : AdminFetch(1, act, S)
  \/ AdminApproveStep(1)
  \/ AdminRejectStep(1)
  \/ \E u \in Users : RecomputeStats(u)
  \/ \E u \in Users : AwardBadges(u)

SpecBadges == Init /\ [][NextBadges]_vars

\* Check-in requests side by side, next to recomputations and evaluator runs.
NextCheckin ==
  \/ \E a \in Admins, e \in Events, u \in Users : CheckinExists(a, e, u)
  \/ \E a \in Admins : CheckinParticipant(a)
  \/ \E a \in Admins : CheckinLog(a)
  \/ \E u \in Users : RecomputeStats(u)
  \/ \E u \in Users : AwardBadges(u)

SpecCheckin == Init /\ [][NextCheckin]_vars

\* ------------------------------------------------------------- properties
\* the number of rows of table l among rows, counted with multiplicity
RowCount(l, rows) == BagCardinality([r \in rows |-> CopiesIn(r, l)])

\* the number of CarbonLog rows that reference submission s
EntriesFor(s) == RowCount(ledger, {r \in BagToSet(ledger) : r.submission = s})

\* this step is an approve() of submission s
ApproveOf(s) == last'.op = "approve" /\ last'.sub = s

\* this step is the rejection of submission s by the bulk action
RejectOf(s) == last'.op = "reject" /\ last'.sub = s

\* C1: for every user the cached total_points equals the sum of points_earned
\* over the user's CarbonLog rows, and total_carbon_saved the sum of their
\* carbon_saved_kg, after any sequence of approvals and challenge progress reports.
C1_TotalsEqualLedger ==
  \A u \in Users : /\ profile[u].total_points = SumPoints(ledger, u)
                   /\ profile[u].total_carbon_saved = SumCarbon(ledger, u)

\* C2: approve() on a submission that is already Approved fails with
\* InvalidStateTransition, leaves points_awarded and carbon_saved_kg as they
\* were and creates no second CarbonLog row for the submission.
C2_SecondApproveFails ==
  [][\A s \in DOMAIN subs :
        (subs[s].status = "APPROVED" /\ ApproveOf(s)) =>
           /\ last'.err = "InvalidStateTransition"
           /\ subs'[s].points_awarded = subs[s].points_awarded
           /\ subs'[s].carbon_saved_kg = subs[s].carbon_saved_kg
           /\ ledger' = ledger]_vars

\* C3: when approve() fails after the log entry is written and before the
\* totals are recomputed, the approval is rolled back: the submission is still
\* Pending with points_awarded = 0 and carbon_saved_kg = 0 and no CarbonLog
\* row references it.
C3_FailedApproveRolledBack ==
  (last.op = "approve" /\ last.err = "PersistenceFailure") =>
     /\ subs[last.sub].status = "PENDING"
     /\ subs[last.sub].points_awarded = 0
     /\ subs[last.sub].carbon_saved_kg = 0
     /\ EntriesFor(last.sub) = 0

\* C4: approve() of a Pending submission of an enumerated kind k with positive
\* quantity q leaves it Approved with points_awarded = floor(q * 10) and
\* carbon_saved_kg = q * coefficient[k], and adds exactly one CarbonLog row,
\* which references the submission and carries its user, points and carbon
\* (TreePlantation, q = 5: 50 points and 110.0 kg).
C4_ApproveComputesReward ==
  [][\A s \in DOMAIN subs :
        (/\ subs[s].status = "PENDING"
         /\ subs[s].quantity > 0
         /\ subs[s].activity_type \in ActivityType
         /\ ApproveOf(s)) =>
           LET q == subs[s].quantity
               k == subs[s].activity_type
           IN /\ subs'[s].status = "APPROVED"
              /\ subs'[s].points_awarded = (q * 10) \div 100
              /\ subs'[s].carbon_saved_kg = q * CARBON_FACTORS[k]
              /\ ledger' = ledger (+) SetToBag({[user |-> subs[s].user, submission |-> s,
                                                 carbon_saved_kg |-> q * CARBON_FACTORS[k],
                                                 points_earned |-> (q * 10) \div 100]})
              /\ (k = "TREE" /\ q = 500) =>
                    (subs'[s].points_awarded = 50 /\ subs'[s].carbon_saved_kg = 1100000)]_vars

C4_Witness ==
  /\ last.op = "approve"
  /\ subs[1].activity_type = "TREE" /\ subs[1].quantity = 500
  /\ subs[1].status = "APPROVED" /\ subs[1].points_awarded = 50
  /\ subs[1].carbon_saved_kg = 1100000
  /\ EntriesFor(1) = 1

\* C5: in every reachable state at most one CarbonLog row references any one
\* submission.
C5_AtMostOneLogPerSubmission ==
  \A s \in DOMAIN subs : EntriesFor(s) <= 1

\* C6: Approved and Rejected are terminal, and an approve or reject attempted
\* on a submission that is not Pending fails with InvalidStateTransition and
\* changes neither the submission, the ledger, the profile nor the badges.
C6_TerminalStates ==
  [][\A s \in DOMAIN subs :
        subs[s].status # "PENDING" =>
           /\ subs'[s].status = subs[s].status
           /\ (ApproveOf(s) \/ RejectOf(s)) =>
                 /\ last'.err = "InvalidStateTransition"
                 /\ subs' = subs /\ ledger' = ledger /\ profile' = profile /\ badges' = badges]_vars

\* C7: a submission that is Pending or Rejected has points_awarded = 0 and
\* carbon_saved_kg = 0.
C7_RewardOnlyWhenApproved ==
  \A s \in DOMAIN subs :
     subs[s].status \in {"PENDING", "REJECTED"} =>
        (subs[s].points_awarded = 0 /\ subs[s].carbon_saved_kg = 0)

\* a submission that one bulk action approved and another, working on an
\* object fetched earlier, then rejected
C7_Witness ==
  /\ last.op = "reject"
  /\ subs[last.sub].status = "REJECTED"
  /\ subs[last.sub].points_awarded = 0
  /\ EntriesFor(last.sub) = 1

\* C8: rejecting a Pending submission sets its state to Rejected and its
\* feedback, leaves points_awarded at 0, creates no CarbonLog row and leaves
\* every profile total and the badge set unchanged.
C8_RejectFrame ==
  [][\A s \in DOMAIN subs :
        (subs[s].status = "PENDING" /\ RejectOf(s)) =>
           /\ subs'[s].status = "REJECTED"
           /\ subs'[s].feedback = "Rejected by admin bulk action"
           /\ subs'[s].points_awarded = 0
           /\ subs'[s].carbon_saved_kg = 0
           /\ \A t \in DOMAIN subs : t # s => subs'[t] = subs[t]
           /\ ledger' = ledger
           /\ profile' = profile
           /\ badges' = badges]_vars

\* the owner of the rejected submission has points and a badge from an earlier approval
C8_Witness ==
  /\ last.op = "reject"
  /\ subs[last.sub].status = "REJECTED"
  /\ subs[last.sub].feedback = "Rejected by admin bulk action"
  /\ EntriesFor(last.sub) = 0
  /\ profile[last.user].total_points >= 50
  /\ HasBadge(badges, last.user, "BRONZE")

BadgeRows(u, t) == RowCount(badges, {r \in BagToSet(badges) : r.user = u /\ r.badge_type = t})

\* C9: in every reachable state there is at most one UserBadge row per
\* (user, badge kind).
C9_BadgeUnique ==
  \A r \in BagToSet(badges) : BadgeRows(r.user, r.badge_type) = 1

\* a user whose two approvals brought the points to 60 holds exactly one Bronze badge
C9_Witness ==
  \E u \in Users :
     /\ Cardinality({s \in DOMAIN subs : subs[s].user = u /\ subs[s].status = "APPROVED"}) = 2
     /\ BagCardinality(ledger) = 2
     /\ profile[u].total_points = 60
     /\ BadgeRows(u, "BRONZE") = 1

\* C10: a run of the badge evaluator that directly follows another run for
\* the same user awards no badge and leaves the badge set and the profile
\* totals as they were.
C10_EvaluatorIdempotent ==
  [][(last'.op = "award_badges" /\ last'.repeat) =>
        (last'.created = 0 /\ badges' = badges /\ profile' = profile)]_vars

\* the second run, for a user who holds a badge
C10_Witness ==
  /\ last.op = "award_badges"
  /\ last.repeat
  /\ \E r \in BagToSet(badges) : r.user = last.user

\* the level badge of each points threshold
LevelBadge == [t \in {50, 200, 500, 1000, 2000} |->
                 CASE t = 50 -> "BRONZE" [] t = 200 -> "SILVER" [] t = 500 -> "GOLD"
                   [] t = 1000 -> "PLATINUM" [] t = 2000 -> "ECO_CHAMPION"]

\* C11: after one evaluation pass (the one approve() ends with) the user holds
\* the level badge of every threshold in {50, 200, 500, 1000, 2000} that is
\* less than or equal to the user's total_points; a user who reaches 2500
\* points in a single step holds all five.
C11_AllLevelBadgesInOnePass ==
  (last.op = "approve" /\ last.err = "none") =>
     /\ \A t \in DOMAIN LevelBadge :
           t <= profile[last.user].total_points => BadgeRows(last.user, LevelBadge[t]) = 1
     /\ profile[last.user].total_points = 2500 =>
           \A t \in DOMAIN LevelBadge : HasBadge(badges, last.user, LevelBadge[t])

\* one approval took the user from 0 to 2500 points and from no badge to all five level badges
C11_Witness ==
  /\ last.op = "approve"
  /\ BagCardinality(ledger) = 1
  /\ profile[last.user].total_points = 2500
  /\ \A t \in DOMAIN LevelBadge : HasBadge(badges, last.user, LevelBadge[t])

\* the summed quantity (hundredths) of the Approved submissions of user u and kind k in table t
ApprovedSum(t, u, k) == ApprovedQuantity(t, u, k, 1)

\* C12: an activity-kind badge is awarded by the approval that first makes the
\* user's summed quantity of Approved submissions of that kind reach the
\* kind's threshold and by no earlier approval; Pending and Rejected
\* submissions do not count (45 kg of recycling approved: no RecyclingHero;
\* a further approved 10 kg: RecyclingHero in that same approval).
C12_ActivityBadgeAtThreshold ==
  [][\A s \in DOMAIN subs :
        (ApproveOf(s) /\ last'.err = "none") =>
           LET u == subs[s].user
           IN /\ \A i \in DOMAIN activity_badges :
                    LET r == activity_badges[i]
                        before == ApprovedSum(subs, u, r.activity_type)
                        after == ApprovedSum(subs', u, r.activity_type)
                    IN /\ after < r.threshold * 100 => ~HasBadge(badges', u, r.badge_type)
                       /\ (before < r.threshold * 100 /\ after >= r.threshold * 100) =>
                             (~HasBadge(badges, u, r.badge_type) /\ HasBadge(badges', u, r.badge_type))
              /\ ApprovedSum(subs', u, "RECYCLE") = 4500 => ~HasBadge(badges', u, "RECYCLING_HERO")
              /\ ApprovedSum(subs', u, "RECYCLE") = 5500 => HasBadge(badges', u, "RECYCLING_HERO")]_vars

\* the approval of 10 kg after 45 kg of recycling has just given the badge
C12_Witness ==
  /\ last.op = "approve"
  /\ Len(subs) = 2
  /\ \A s \in DOMAIN subs : subs[s].user = last.user /\ subs[s].status = "APPROVED"
  /\ subs[1].activity_type = "RECYCLE" /\ subs[1].quantity = 4500
  /\ subs[2].activity_type = "RECYCLE" /\ subs[2].quantity = 1000
  /\ last.sub = 2
  /\ BadgeRows(last.user, "RECYCLING_HERO") = 1

\* this step is a progress report of value p on challenge c that the API accepted
ProgressOf(c, p) == last'.op = "progress" /\ last'.sub = c /\ last'.arg = p /\ last'.err = "none"

\* C13: in every reachable state every challenge has
\* 0 <= current_progress <= target_value, whatever value was reported; a
\* report above the target leaves current_progress = target_value and
\* is_completed = true.
C13_ProgressWithinBounds ==
  /\ \A c \in DOMAIN challenges :
        0 <= challenges[c].current_progress /\ challenges[c].current_progress <= challenges[c].target_value
  /\ (last.op = "progress" /\ last.err = "none" /\ last.arg > challenges[last.sub].target_value) =>
        /\ challenges[last.sub].current_progress = challenges[last.sub].target_value
        /\ challenges[last.sub].is_completed

\* C14: a progress report on a challenge that an earlier report completed (and
\* was credited for) credits nothing further: the owner's total_points stay.
C14_RewardCreditedOnce ==
  [][\A c \in DOMAIN challenges, p \in ProgressValues :
        (/\ challenges[c].is_completed
         /\ challenges[c].current_progress >= challenges[c].target_value
         /\ ProgressOf(c, p)) =>
           profile'[challenges[c].user].total_points = profile[challenges[c].user].total_points]_vars

\* C15: target_value = 10, reward_points = 100: report_progress(7) followed by
\* report_progress(5) ends with current_progress = 10, is_completed = true and
\* 100 points credited to the user.
C15_ProgressAccumulates ==
  [][\A c \in DOMAIN challenges :
        (/\ challenges[c].target_value = 10 /\ challenges[c].reward_points = 100
         /\ last.op = "progress" /\ last.sub = c /\ last.arg = 7 /\ last.err = "none"
         /\ challenges[c].current_progress = 7 /\ ~challenges[c].is_completed
         /\ ProgressOf(c, 5)) =>
           /\ challenges'[c].current_progress = 10
           /\ challenges'[c].is_completed
           /\ profile'[challenges[c].user].total_points
                 = profile[challenges[c].user].total_points + 100]_vars

\* the sum of one field over the rows of user u in table l, taking the rows out one at a time
RECURSIVE TakeSum(_, _, _)
TakeSum(l, u, field) ==
  IF BagToSet(l) = {} THEN 0
  ELSE LET r == CHOOSE x \in BagToSet(l) : TRUE
       IN (IF r.user = u THEN r[field] ELSE 0) + TakeSum(l (-) SetToBag({r}), u, field)

\* C16: update_stats is exact and idempotent: it sets total_points and
\* total_carbon_saved to the sums over the user's CarbonLog rows (0 for a user
\* without rows) and touches nothing else, and a second call with no ledger
\* append in between leaves the profile as the first call left it.
C16_UpdateStatsExactIdempotent ==
  [][last'.op = "update_stats" =>
        LET u == last'.user
            once == [subs |-> subs', ledger |-> ledger', profile |-> profile', badges |-> badges']
        IN /\ profile'[u].total_points = TakeSum(ledger, u, "points_earned")
           /\ profile'[u].total_carbon_saved = TakeSum(ledger, u, "carbon_saved_kg")
           /\ (\A r \in BagToSet(ledger) : r.user # u) =>
                 profile'[u] = [total_points |-> 0, total_carbon_saved |-> 0]
           /\ \A v \in Users \ {u} : profile'[v] = profile[v]
           /\ subs' = subs /\ ledger' = ledger /\ badges' = badges
           /\ update_stats(once, u) = once]_vars

\* a recomputation has brought in the points of a log entry that a failed approval left behind
C16_Witness ==
  /\ last.op = "update_stats"
  /\ profile[last.user].total_points = 50
  /\ \E s \in DOMAIN subs : subs[s].user = last.user /\ EntriesFor(s) = 1
  /\ ~HasBadge(badges, last.user, "BRONZE")

\* C17: the ledger is append-only: no operation (approve, reject, recompute,
\* badge evaluation, event check-in, challenge progress report) removes a
\* CarbonLog row or changes the user, points_earned or carbon_saved_kg of one:
\* every row is in the ledger after a step at least as often as before it.
C17_LedgerAppendOnly ==
  [][\A r \in BagToSet(ledger) : CopiesIn(r, ledger') >= CopiesIn(r, ledger)]_vars

\* the ledger holds an approval's entry and an attendance entry, and rejection,
\* recomputation and a completed challenge have happened around them
C17_Witness ==
  /\ BagCardinality(ledger) = 2
  /\ \E r \in BagToSet(ledger) : r.submission = 0 /\ r.points_earned = points_for_attendance
  /\ \E s \in DOMAIN subs : subs[s].status = "APPROVED" /\ EntriesFor(s) = 1
  /\ \E s \in DOMAIN subs : subs[s].status = "REJECTED"
  /\ \E c \in DOMAIN challenges : challenges[c].is_completed
  /\ last.op = "update_stats"

\* C18: between operations there is no partial approval: a submission is
\* Approved if and only if exactly one CarbonLog row references it, and the
\* cached totals of the owner of an Approved submission include its entry
\* (they equal the sums over the owner's rows).
C18_NoPartialApproval ==
  \A s \in DOMAIN subs :
     /\ subs[s].status = "APPROVED" <=> EntriesFor(s) = 1
     /\ subs[s].status = "APPROVED" =>
           /\ profile[subs[s].user].total_points = TakeSum(ledger, subs[s].user, "points_earned")
           /\ profile[subs[s].user].total_carbon_saved = TakeSum(ledger, subs[s].user, "carbon_saved_kg")

\* C19: when approvals of different submissions of one user ran side by side
\* with their steps interleaved and all have finished, the user's cached
\* total_points and total_carbon_saved equal the sums over the ledger with
\* every new entry in it.
C19_ConcurrentApprovalsTotals ==
  (/\ \A a \in Admins : admin[a].action = "idle"
   /\ \A s \in DOMAIN subs : EntriesFor(s) <= 1
   /\ last.op = "approve") =>
     \A u \in Users : /\ profile[u].total_points = TakeSum(ledger, u, "points_earned")
                      /\ profile[u].total_carbon_saved = TakeSum(ledger, u, "carbon_saved_kg")

\* C20: when badge evaluator runs for one user interleave and both find the
\* same badge missing, one UserBadge row is created and the other run goes on
\* as after a no-op: every create() step ends without error with exactly one
\* row for the pair, and it adds no row when a row was already there.
C20_ConcurrentEvaluatorsOneRow ==
  [][last'.op = "evaluate_create" =>
        \E a \in Admins :
           /\ admin[a].action = "evaluate_create" /\ admin'[a] # admin[a]
           /\ LET u == admin[a].user
                  t == EvalRow(admin[a].pos, u, admin[a].points).badge_type
              IN /\ last'.err = "none"
                 /\ RowCount(badges', {r \in BagToSet(badges') : r.user = u /\ r.badge_type = t}) = 1
                 /\ HasBadge(badges, u, t) => (badges' = badges /\ last'.created = 0)
                 /\ ~HasBadge(badges, u, t) => last'.created = 1]_vars

\* no approval has run: both runs found TEAM_PLAYER missing, one created the
\* row and the create() of the other has just ended as a no-op
C20_Witness ==
  /\ subs = <<>>
  /\ last.op = "evaluate_create"
  /\ last.arg = EvalRows
  /\ last.created = 0
  /\ BadgeRows(last.user, "TEAM_PLAYER") = 1

\* C21: every operation that appends a CarbonLog row for a user (an approval,
\* an event check-in) recomputes that user's totals before it returns: when
\* the operation has finished the cached totals equal the sums over the ledger.
C21_RecomputedAfterAppend ==
  (last.op \in {"approve", "checkin"} /\ last.err = "none") =>
     /\ profile[last.user].total_points = TakeSum(ledger, last.user, "points_earned")
     /\ profile[last.user].total_carbon_saved = TakeSum(ledger, last.user, "carbon_saved_kg")

\* C22: for every challenge, is_completed is true if and only if
\* current_progress has been brought to target_value: nothing else (forced
\* generation of a new challenge, the admin action) sets is_completed.
C22_CompletedIffTargetReached ==
  \A c \in DOMAIN challenges :
     challenges[c].is_completed <=> challenges[c].current_progress = challenges[c].target_value

LevelName == [t \in DOMAIN LevelBadge |->
                CASE t = 50 -> "Bronze" [] t = 200 -> "Silver" [] t = 500 -> "Gold"
                  [] t = 1000 -> "Platinum" [] t = 2000 -> "Eco Champion"]

LevelRank(name) ==
  CASE name = "Newbie" -> 0 [] name = "Bronze" -> 1 [] name = "Silver" -> 2
    [] name = "Gold" -> 3 [] name = "Platinum" -> 4 [] name = "Eco Champion" -> 5

\* the thresholds of the level badges user u holds
HeldLevels(u) == {t \in DOMAIN LevelBadge : HasBadge(badges, u, LevelBadge[t])}

\* C24: current_level is a function of total_points alone: Newbie below 50,
\* Bronze from 50, Silver from 200, Gold from 500, Platinum from 1000, Eco
\* Champion from 2000; it is monotone in total_points; and after an evaluation
\* it names the highest level badge the evaluator awarded at that value
\* (Newbie when it awarded none).
C24_LevelLadder ==
  /\ \A u \in Users :
        LET p == profile[u].total_points
            reached == {t \in DOMAIN LevelBadge : t <= p}
        IN /\ current_level(p) = IF reached = {} THEN "Newbie" ELSE LevelName[Max(reached)]
           /\ (last.op = "approve" /\ last.user = u) =>
                 current_level(p) = IF HeldLevels(u) = {} THEN "Newbie"
                                    ELSE LevelName[Max(HeldLevels(u))]
  /\ \A u, v \in Users, q \in LevelQuantities :
        /\ PointsFor(q) <= profile[u].total_points =>
              LevelRank(current_level(PointsFor(q))) <= LevelRank(current_level(profile[u].total_points))
        /\ profile[v].total_points <= PointsFor(q) =>
              LevelRank(current_level(profile[v].total_points)) <= LevelRank(current_level(PointsFor(q)))

\* an approval has brought a user exactly onto the Platinum threshold
C24_Witness ==
  /\ last.op = "approve"
  /\ profile[last.user].total_points = 1000
  /\ current_level(profile[last.user].total_points) = "Platinum"
  /\ HeldLevels(last.user) = {50, 200, 500, 1000}

\* C25: badges are permanent: a UserBadge row that exists for (user, kind)
\* exists after every step, with its description unchanged, whatever
\* approvals, rejections, recomputations or evaluator runs follow.
C25_BadgesPermanent ==
  [][\A r \in BagToSet(badges) : CopiesIn(r, badges') >= CopiesIn(r, badges)]_vars

\* a user who got Bronze from a first approval holds it still after a second
\* approval has added Silver and Gold
C25_Witness ==
  \E u \in Users :
     /\ last.op = "approve" /\ last.user = u
     /\ profile[u].total_points = 550
     /\ subs[1].quantity = 1000 /\ subs[1].status = "APPROVED" /\ last.sub = 2
     /\ HeldLevels(u) = {50, 200, 500}
     /\ HasBadge(badges, u, "RECYCLING_HERO")

\* C26: a user's cached total_points never decreases: after any step
\* (approval, challenge completion, recomputation) the value is greater than
\* or equal to the value before it, so the points of a completed challenge are
\* still in the total after the next recomputation.
C26_TotalPointsMonotone ==
  [][\A u \in Users : profile'[u].total_points >= profile[u].total_points]_vars

\* C27: when two bulk approve actions that both selected the same Pending
\* submission have run side by side and finished, the submission is rewarded
\* once: exactly one CarbonLog row references it and the owner's total counts
\* its points once.
C27_SameSubmissionRewardedOnce ==
  (\A a \in Admins : admin[a].action = "idle") =>
     \A s \in DOMAIN subs :
        subs[s].status = "APPROVED" =>
           /\ EntriesFor(s) = 1
           /\ TakeSum([r \in {x \in BagToSet(ledger) : x.submission = s} |-> CopiesIn(r, ledger)],
                      subs[s].user, "points_earned") = subs[s].points_awarded

\* the number of EventParticipant rows for (e, u)
ParticipantRows(e, u) == CopiesIn([event |-> e, user |-> u], participants)

\* the CarbonLog rows of user u that come from attendance (no submission)
AttendanceRows(u) == {r \in BagToSet(ledger) : r.user = u /\ r.submission = 0}

\* some check-in request for user u is between its steps
CheckinInProgress(u) ==
  \E a \in Admins : admin[a].action \in {"checkin_participant", "checkin_log"} /\ admin[a].user = u

\* C28: attendance is rewarded at most once per (event, user): a first
\* check-in creates one EventParticipant row and one CarbonLog row with carbon
\* 0 and the event's points_for_attendance; a later check-in of the same user
\* at the same event, after the first or side by side with it, creates no
\* further EventParticipant row and no further CarbonLog row.
C28_AttendanceRewardedOnce ==
  \A u \in Users :
     /\ \A e \in Events : ParticipantRows(e, u) <= 1
     /\ \A r \in AttendanceRows(u) : r.carbon_saved_kg = 0 /\ r.points_earned = points_for_attendance
     /\ RowCount(ledger, AttendanceRows(u)) <= EventsAttended(participants, u)
     /\ ~CheckinInProgress(u) => RowCount(ledger, AttendanceRows(u)) = EventsAttended(participants, u)
     /\ (last.op = "checkin" /\ last.user = u /\ last.err # "none") =>
           (ParticipantRows(last.arg, u) = 1 /\ RowCount(ledger, AttendanceRows(u)) <= 1)

\* two requests for the same user and event both passed the exists() query;
\* one wrote the two rows, the insert of the other has just been refused
C28_Witness ==
  /\ last.op = "checkin" /\ last.err = "IntegrityError"
  /\ \A a \in Admins : admin[a].action = "idle"
  /\ ParticipantRows(last.arg, last.user) = 1
  /\ RowCount(ledger, AttendanceRows(last.user)) = 1

\* the ids in the queue of the staff session
QueuedIds(q) == {q[i].id : i \in DOMAIN q}

\* the CarbonLog rows that reference submission s are the same before and after the step
EntriesKept(s) ==
  \A r \in BagToSet(ledger) \cup BagToSet(ledger') :
     r.submission = s => CopiesIn(r, ledger') = CopiesIn(r, ledger)

\* C29: the bulk approve and bulk reject actions act only on the selected
\* submissions that are Pending: a bulk action takes up exactly the Pending
\* ones of its selection, each once; a submission that is Approved or Rejected
\* keeps its row and its ledger entries; every step of the action transitions
\* the one Pending submission it works on and leaves the others, their
\* entries and the totals derived from them as they were.
C29_BulkActionsOnlyPending ==
  [][/\ (last'.op \in {"fetch_approve", "fetch_reject"}) =>
          /\ QueuedIds(admin'[1].queue) = {s \in last'.sel : subs[s].status = "PENDING"}
          /\ Len(admin'[1].queue) = Cardinality(QueuedIds(admin'[1].queue))
          /\ subs' = subs /\ ledger' = ledger /\ profile' = profile /\ badges' = badges
     /\ \A s \in DOMAIN subs :
          /\ subs[s].status # "PENDING" => (subs'[s] = subs[s] /\ EntriesKept(s))
          /\ (ApproveOf(s) \/ RejectOf(s)) =>
                /\ subs[s].status = "PENDING" /\ subs'[s].status # "PENDING"
                /\ s \notin QueuedIds(admin'[1].queue)
                /\ \A t \in DOMAIN subs \ {s} : subs'[t] = subs[t] /\ EntriesKept(t)
                /\ \A u \in Users \ {subs[s].user} : profile'[u] = profile[u]
                /\ profile'[subs[s].user].total_points
                      = profile[subs[s].user].total_points + subs'[s].points_awarded]_vars

\* a bulk approve was started on a selection of an Approved and a Pending
\* submission of one user: it took up the Pending one only
C29_Witness ==
  /\ last.op = "fetch_approve" /\ last.sel = {1, 2}
  /\ subs[1].user = subs[2].user
  /\ subs[1].status = "APPROVED" /\ EntriesFor(1) = 1
  /\ subs[2].status = "PENDING"
  /\ admin[1].action = "approve" /\ QueuedIds(admin[1].queue) = {2}

====
